---- MODULE Spec2Model ----
(***************************************************************************)
(* Voice food logger: the daily-journal store (storage.py), the two        *)
(* retrying service clients (transcription.py, processing.py) and the      *)
(* upload pipeline (app.py), as state machines.                            *)
(***************************************************************************)
EXTENDS Integers, Sequences, FiniteSets, TLC

VARIABLES
    files,      \* the logs directory: path -> content of the file
    files0,     \* history: the logs directory as the program found it
    wk,         \* per worker: the store_food_entry call it is executing
    rd,         \* the last get_daily_entries call and what it returned
    calls,      \* number of store_food_entry calls made so far
    appended,   \* history: per day, the entries stored by calls that returned True
    race,       \* history: how two concurrent appends interleaved
    cl,         \* the TranscriptionService and FoodProcessor objects in use
    call,       \* the transcribe_audio or parse_food_description call under way
    run,        \* the upload_audio request being handled
    now,        \* the clock: index of the current time in Clock
    env,        \* the process: its GROQ_API_KEY and how far app.py has started
    fn          \* a function of processing.py applied to an argument, and its result

storeVars == <<files, files0, wk, rd, calls, appended, race>>
clientVars == <<cl, call>>
pipeVars == <<run, now>>
envVars == <<env, fn>>
vars == <<storeVars, clientVars, pipeVars, envVars>>

----------------------------------------------------------------------------
(* Bounds of the model. *)

MaxAppends == 3
MaxCalls == 2       \* calls made on one client object
MaxText == 3        \* symbols of a text, for the texts taken exhaustively
MaxItems == 2       \* items of a payload, for the payloads taken exhaustively
MaxUploads == 2     \* uploads the process answers one after the other

----------------------------------------------------------------------------
(* Python values, tagged by their type. *)

PyStr(s)  == [k |-> "str",  v |-> s]
PyInt(s)  == [k |-> "int",  v |-> s]
PyNone    == [k |-> "none", v |-> ""]
PyList(q) == [k |-> "list", v |-> q]
PyDict(f) == [k |-> "dict", v |-> f]

(* JSON values, as they stand in a document. *)
JStr(s) == [k |-> "string", v |-> s]
JNum(s) == [k |-> "number", v |-> s]
JNull   == [k |-> "null",   v |-> ""]
JArr(q) == [k |-> "array",  v |-> q]
JObj(f) == [k |-> "object", v |-> f]

(* A file that holds no JSON document at all (empty, or not JSON). *)
NoDoc == [k |-> "nodoc", v |-> ""]

(* json.dump: the JSON value a Python value is written as. *)
RECURSIVE ToJson(_)
ToJson(p) ==
    CASE p.k = "str"  -> JStr(p.v)
      [] p.k = "int"  -> JNum(p.v)
      [] p.k = "none" -> JNull
      [] p.k = "list" -> JArr([i \in 1..Len(p.v) |-> ToJson(p.v[i])])
      [] p.k = "dict" -> JObj([key \in DOMAIN p.v |-> ToJson(p.v[key])])

(* json.load: the Python value a JSON value is read as. *)
RECURSIVE FromJson(_)
FromJson(j) ==
    CASE j.k = "string" -> PyStr(j.v)
      [] j.k = "number" -> PyInt(j.v)
      [] j.k = "null"   -> PyNone
      [] j.k = "array"  -> PyList([i \in 1..Len(j.v) |-> FromJson(j.v[i])])
      [] j.k = "object" -> PyDict([key \in DOMAIN j.v |-> FromJson(j.v[key])])

(* The number of characters json.dump(..., indent=2) writes for a value *)
(* that starts at nesting depth d.                                       *)
RECURSIVE SumSeq(_)
SumSeq(q) == IF q = <<>> THEN 0 ELSE Head(q) + SumSeq(Tail(q))

RECURSIVE SumKeys(_, _)
SumKeys(f, keys) ==
    IF keys = {} THEN 0
    ELSE LET key == CHOOSE x \in keys : TRUE
         IN  f[key] + SumKeys(f, keys \ {key})

RECURSIVE JsonSize(_, _)
JsonSize(j, d) ==
    CASE j.k = "string" -> Len(j.v) + 2
      [] j.k = "number" -> Len(j.v)
      [] j.k = "null"   -> 4
      [] j.k = "array"  ->
            IF Len(j.v) = 0 THEN 2
            ELSE 2 + SumSeq([i \in 1..Len(j.v) |->
                                2 * (d + 1) + JsonSize(j.v[i], d + 1)])
                   + 2 * (Len(j.v) - 1) + 1 + 2 * d + 1
      [] j.k = "object" ->
            IF DOMAIN j.v = {} THEN 2
            ELSE 2 + SumKeys([key \in DOMAIN j.v |->
                                2 * (d + 1) + Len(key) + 4
                                + JsonSize(j.v[key], d + 1)], DOMAIN j.v)
                   + 2 * (Cardinality(DOMAIN j.v) - 1) + 1 + 2 * d + 1

----------------------------------------------------------------------------
(* Timestamps and paths. *)

Days  == {"2024-01-15", "2024-01-16"}
Times == {"10:30:00", "14:30:00"}
Timestamps == [date : Days, time : Times]

(* datetime.isoformat() *)
isoformat(t) == t.date \o "T" \o t.time

(* A path that would not depend on the date. *)
PathOfOneFile(t) == "logs/logs.json"

(* FoodStorage._get_daily_log_path *)
get_daily_log_path(t) == "logs/logs_" \o t.date \o ".json"

Paths == {get_daily_log_path(t) : t \in Timestamps}

(* Any timestamp of a day: _load_daily_log reads only its date. *)
DayOf(d) == [date |-> d, time |-> "10:30:00"]

----------------------------------------------------------------------------
(* File contents. *)

Absent == [k |-> "absent", doc |-> NoDoc, len |-> 0, clean |-> TRUE]

(* A file whose bytes are exactly the document doc as json.dump writes it. *)
TextOf(doc) == [k |-> "text", doc |-> doc, len |-> JsonSize(doc, 0), clean |-> TRUE]

(* The file right after open(path, 'w'): it exists and is empty. *)
Truncated == [k |-> "text", doc |-> NoDoc, len |-> 0, clean |-> TRUE]

(* A file of n bytes that are not JSON. *)
Garbage(n) == [k |-> "text", doc |-> NoDoc, len |-> n, clean |-> TRUE]

(* A file of n bytes that are not UTF-8 text. *)
Undecodable(n) == [k |-> "binary", doc |-> NoDoc, len |-> n, clean |-> TRUE]

(* A write that would replace the whole content of the file. *)
WriteReplacing(c, doc) == TextOf(doc)

(* Writing the s bytes of doc at offset 0 of a file that holds c: the bytes *)
(* of c beyond s stay where they are.                                       *)
WriteAt0(c, doc) ==
    LET s == JsonSize(doc, 0)
    IN  [k |-> "text", doc |-> doc,
         len |-> IF c.len > s THEN c.len ELSE s,
         clean |-> c.len <= s]

(* json.load(file) raises JSONDecodeError. *)
DecodeError(c) == c.doc = NoDoc \/ ~c.clean

(* json.load(file) raises UnicodeDecodeError: file.read() decodes the bytes *)
(* as UTF-8 (line 31). It is a ValueError, neither a JSONDecodeError nor an *)
(* IOError, so line 41 does not catch it.                                   *)
UnicodeDecodeError(c) == c.k = "binary"

----------------------------------------------------------------------------
(* FoodStorage._load_daily_log: whether it raises, and what it returns when *)
(* it does not.                                                             *)

LoadRaises(fs, t) == UnicodeDecodeError(fs[get_daily_log_path(t)])

(* A loader that would fall back on the other day's file for a day that has *)
(* none.                                                                    *)
LoadFallingBack(fs, t) ==
    LET c == fs[get_daily_log_path(t)]
        o == fs[get_daily_log_path([t EXCEPT !.date =
                    IF @ = "2024-01-15" THEN "2024-01-16" ELSE "2024-01-15"])]
        r == IF c.k = "absent" THEN o ELSE c
    IN  IF r.k = "absent" THEN <<>>
        ELSE IF DecodeError(r) THEN <<>>
        ELSE IF r.doc.k = "object" THEN <<FromJson(r.doc)>>
        ELSE IF r.doc.k = "array" THEN FromJson(r.doc).v
        ELSE <<>>

(* A loader that would take a legacy object for an unexpected format. *)
LoadListsOnly(fs, t) ==
    LET c == fs[get_daily_log_path(t)]
    IN  IF c.k = "absent" THEN <<>>
        ELSE IF DecodeError(c) THEN <<>>
        ELSE IF c.doc.k = "array" THEN FromJson(c.doc).v
        ELSE <<>>

load_daily_log(fs, t) ==
    LET c == fs[get_daily_log_path(t)]
    IN  IF c.k = "absent" THEN <<>>
        ELSE IF DecodeError(c) THEN <<>>
        ELSE IF c.doc.k = "object" THEN <<FromJson(c.doc)>>
        ELSE IF c.doc.k = "array" THEN FromJson(c.doc).v
        ELSE <<>>

(* FoodStorage.get_daily_entries *)
get_daily_entries(fs, t) == load_daily_log(fs, t)

(* store_food_entry, lines 71-73: "not food_items or not isinstance(list)" *)
Falsy(p) ==
    \/ p.k = "none"
    \/ p.k = "str"  /\ p.v = ""
    \/ p.k = "text" /\ p.v = <<>>
    \/ p.k = "int"  /\ p.v = "0"
    \/ p.k = "list" /\ p.v = <<>>
    \/ p.k = "dict" /\ DOMAIN p.v = {}

(* A check that would ask for a list and accept an empty one. *)
NotList(p) == p.k # "list"

NotNonEmptyList(p) == Falsy(p) \/ p.k # "list"

(* A validation that would look for the food field alone. *)
InvalidItemFoodOnly(item) ==
    \/ item.k # "dict"
    \/ "food" \notin DOMAIN item.v

(* store_food_entry, lines 76-79 *)
InvalidItem(item) ==
    \/ item.k # "dict"
    \/ "food" \notin DOMAIN item.v
    \/ "quantity" \notin DOMAIN item.v

Rejected(p) ==
    \/ NotNonEmptyList(p)
    \/ \E i \in 1..Len(p.v) : InvalidItem(p.v[i])

(* An entry that would carry the date alone as its timestamp. *)
MakeEntryDateOnly(food_items, t) ==
    PyDict([timestamp |-> PyStr(t.date), items |-> food_items])

(* store_food_entry, lines 82-85 *)
MakeEntry(food_items, t) ==
    PyDict([timestamp |-> PyStr(isoformat(t)), items |-> food_items])

----------------------------------------------------------------------------
(* Texts: the replies of the services, as sequences of symbols. A symbol   *)
(* is a brace or a bracket, a JSON key with its colon, a JSON scalar, the   *)
(* fence opener ```json\n, the fence closer \n```, a run of prose or a run  *)
(* of white space.                                                          *)

Sym(s, a) == [s |-> s, a |-> a]
LB     == Sym("{", "")
RB     == Sym("}", "")
LS     == Sym("[", "")
RS     == Sym("]", "")
FO     == Sym("fence-open", "")
FC     == Sym("fence-close", "")
WS     == Sym("space", "")
W(a)   == Sym("prose", a)
KEY(a) == Sym("key", a)
STR(a) == Sym("string", a)
NUM(a) == Sym("number", a)

(* A Python str that is a text; "" is the empty sequence. *)
PyText(q) == [k |-> "text", v |-> q]

(* str.strip() *)
RECURSIVE LStrip(_)
LStrip(q) == IF q # <<>> /\ Head(q) = WS THEN LStrip(Tail(q)) ELSE q

RECURSIVE RStrip(_)
RStrip(q) ==
    IF q # <<>> /\ q[Len(q)] = WS THEN RStrip(SubSeq(q, 1, Len(q) - 1)) ELSE q

strip(q) == RStrip(LStrip(q))

(* str.find and str.rfind, counting symbols from 1; 0 stands for -1. *)
Occurs(q, m, i) == i + Len(m) - 1 <= Len(q) /\ SubSeq(q, i, i + Len(m) - 1) = m

find(q, m) ==
    LET at == {i \in 1..Len(q) : Occurs(q, m, i)}
    IN  IF at = {} THEN 0 ELSE CHOOSE i \in at : \A j \in at : i <= j

rfind(q, m) ==
    LET at == {i \in 1..Len(q) : Occurs(q, m, i)}
    IN  IF at = {} THEN 0 ELSE CHOOSE i \in at : \A j \in at : i >= j

(* json.loads: a value, then nothing more. *)
ParseFail == [ok |-> FALSE, val |-> PyNone, rest |-> <<>>]

RECURSIVE ParseValue(_), ParseMembers(_, _), ParseElems(_, _)
ParseValue(q) ==
    IF q = <<>> THEN ParseFail
    ELSE CASE Head(q).s = "string" -> [ok |-> TRUE, val |-> PyStr(Head(q).a), rest |-> Tail(q)]
           [] Head(q).s = "number" -> [ok |-> TRUE, val |-> PyInt(Head(q).a), rest |-> Tail(q)]
           [] Head(q).s = "{" -> ParseMembers(Tail(q), [x \in {} |-> PyNone])
           [] Head(q).s = "[" -> ParseElems(Tail(q), <<>>)
           [] OTHER -> ParseFail

ParseMembers(q, acc) ==
    IF q = <<>> THEN ParseFail
    ELSE IF Head(q) = RB THEN [ok |-> TRUE, val |-> PyDict(acc), rest |-> Tail(q)]
    ELSE IF Head(q).s = "key"
         THEN LET r == ParseValue(Tail(q))
              IN  IF r.ok THEN ParseMembers(r.rest, (Head(q).a :> r.val) @@ acc)
                  ELSE ParseFail
    ELSE ParseFail

ParseElems(q, acc) ==
    IF q = <<>> THEN ParseFail
    ELSE IF Head(q) = RS THEN [ok |-> TRUE, val |-> PyList(acc), rest |-> Tail(q)]
    ELSE LET r == ParseValue(q)
         IN  IF r.ok THEN ParseElems(r.rest, Append(acc, r.val)) ELSE ParseFail

JSONDecodeError(q) == LET r == ParseValue(q) IN ~r.ok \/ r.rest # <<>>

json_loads(q) == ParseValue(q).val

(* FoodProcessor._extract_json, lines 129-152: the whole text, then for the *)
(* start markers { and ```json\n{ (found from the left) and the end markers *)
(* } and }\n``` (found from the right) the slice from the one to the        *)
(* closing brace of the other, fence markers removed; None when none of     *)
(* them parses.                                                             *)
StartMarkers == << <<LB>>, <<FO, LB>> >>
EndMarkers   == << <<RB>>, <<RB, FC>> >>

Unfenced(q) == SelectSeq(q, LAMBDA y : y # FO /\ y # FC)

Candidate(q, i, j) ==
    LET start_idx == find(q, StartMarkers[i])
        end_idx   == rfind(q, EndMarkers[j])
    IN  IF start_idx # 0 /\ end_idx # 0 /\ end_idx > start_idx
        THEN Unfenced(SubSeq(q, start_idx, end_idx))
        ELSE <<>>

(* An extraction that would try the whole text and nothing else. *)
ExtractWholeOnly(q) == IF ~JSONDecodeError(q) THEN json_loads(q) ELSE PyNone

extract_json(q) ==
    IF ~JSONDecodeError(q) THEN json_loads(q)
    ELSE LET tries == << <<1, 1>>, <<1, 2>>, <<2, 1>>, <<2, 2>> >>
             good == {n \in 1..4 :
                        ~JSONDecodeError(Candidate(q, tries[n][1], tries[n][2]))}
         IN  IF good = {} THEN PyNone
             ELSE LET n == CHOOSE x \in good : \A y \in good : x <= y
                  IN  json_loads(Candidate(q, tries[n][1], tries[n][2]))

----------------------------------------------------------------------------
(* The inputs the callers pass. *)

Egg     == PyDict([food |-> PyStr("egg"), quantity |-> PyStr("2")])
Chicken == PyDict([food |-> PyStr("chicken breast"), quantity |-> PyStr("150 grams")])
Rice    == PyDict([food |-> PyStr("brown rice"), quantity |-> PyStr("0.5 cup")])

ValidInputs == { PyList(<<Egg>>), PyList(<<Chicken, Rice>>) }

InvalidInputs ==
    { PyList(<<>>),
      PyStr("not a list"),
      PyList(<<PyDict([name |-> PyStr("chicken")])>>),
      PyList(<<Egg, PyDict([food |-> PyStr("rice")])>>) }

FoodItemsInputs == ValidInputs \cup InvalidInputs

(* An entry written by an earlier run, and the contents a day's file may have *)
(* when the program starts.                                                   *)
OldEntry(d) ==
    PyDict([timestamp |-> PyStr(d \o "T08:00:00"),
            items |-> PyList(<<PyDict([food |-> PyStr("apple"),
                                       quantity |-> PyStr("1 piece")])>>)])

InitialContents(d) ==
    IF d = "2024-01-15"
    THEN { Absent,
           TextOf(ToJson(PyList(<<OldEntry(d)>>))),
           TextOf(ToJson(OldEntry(d))),
           TextOf(JNum("42")),
           Garbage(20),
           Undecodable(20) }
    ELSE { Absent,
           TextOf(ToJson(PyList(<<OldEntry(d)>>))) }

----------------------------------------------------------------------------
(* The state of a worker that is in no store_food_entry call. *)

NoFiles == [p \in Paths |-> Absent]

IdleWorker ==
    [pc |-> "idle", food_items |-> PyNone, timestamp |-> DayOf("2024-01-15"),
     entries |-> <<>>, ops |-> <<>>, before |-> NoFiles, result |-> FALSE]

Workers == {1, 2}

Other(w) == 3 - w

NoRead ==
    [date |-> "", result |-> <<>>, raised |-> FALSE, mid |-> FALSE, pre |-> <<>>,
     post |-> <<>>]

NoRace == [both |-> FALSE, prior |-> <<>>, order |-> <<>>, overlap |-> FALSE]

InitialFiles ==
    {fs \in [Paths -> UNION {InitialContents(d) : d \in Days}] :
        \A d \in Days : fs[get_daily_log_path(DayOf(d))] \in InitialContents(d)}

StoreStart(fs) ==
    /\ files = fs
    /\ files0 = fs
    /\ wk = [w \in Workers |-> IdleWorker]
    /\ rd = NoRead
    /\ calls = 0
    /\ appended = [d \in Days |-> <<>>]
    /\ race = NoRace

----------------------------------------------------------------------------
(* FoodStorage.store_food_entry, one worker w executing it step by step. *)

(* Lines 57-85: the call, the validation and the entry. A rejected call *)
(* returns False at once.                                                *)
StoreEntry(w, food_items, t) ==
    /\ wk[w].pc = "idle"
    /\ wk' = [wk EXCEPT ![w] =
                [pc |-> IF Rejected(food_items) THEN "done" ELSE "load",
                 food_items |-> food_items,
                 timestamp |-> t,
                 entries |-> <<>>,
                 ops |-> <<>>,
                 before |-> files,
                 result |-> FALSE]]
    /\ calls' = calls + 1
    /\ race' = IF wk[Other(w)].pc = "idle" THEN NoRace ELSE race
    /\ UNCHANGED <<files, files0, appended>>

(* A load step that would start the list anew. *)
LoadStepFresh(w) ==
    /\ wk[w].pc = "load"
    /\ wk' = [wk EXCEPT ![w].pc = "open",
                        ![w].entries = <<MakeEntry(wk[w].food_items, wk[w].timestamp)>>,
                        ![w].ops = Append(@, "read")]
    /\ UNCHANGED <<files, files0, rd, calls, appended, race, clientVars, pipeVars, envVars>>

(* A load step that would put the new entry first. *)
LoadStepPrepend(w) ==
    /\ wk[w].pc = "load"
    /\ LET existing == load_daily_log(files, wk[w].timestamp)
           entry == MakeEntry(wk[w].food_items, wk[w].timestamp)
       IN  wk' = [wk EXCEPT ![w].pc = "open",
                            ![w].entries = <<entry>> \o existing,
                            ![w].ops = Append(@, "read")]
    /\ UNCHANGED <<files, files0, rd, calls, appended, race, clientVars, pipeVars, envVars>>

(* Lines 89-92: load the day's entries and append the new one to the list. *)
(* Lines 100-102: an exception of the load is caught and the call returns   *)
(* False.                                                                   *)
LoadStep(w) ==
    /\ wk[w].pc = "load"
    /\ LET existing == load_daily_log(files, wk[w].timestamp)
           entry == MakeEntry(wk[w].food_items, wk[w].timestamp)
       IN  IF LoadRaises(files, wk[w].timestamp)
           THEN /\ wk' = [wk EXCEPT ![w].pc = "done",
                                    ![w].ops = Append(@, "read")]
                /\ race' = race
           ELSE /\ wk' = [wk EXCEPT ![w].pc = "open",
                                    ![w].entries = Append(existing, entry),
                                    ![w].ops = Append(@, "read")]
                /\ race' = IF wk[Other(w)].pc = "open"
                              /\ wk[Other(w)].timestamp.date = wk[w].timestamp.date
                           THEN [race EXCEPT !.both = TRUE, !.prior = existing]
                           ELSE race
    /\ UNCHANGED <<files, files0, rd, calls, appended, clientVars, pipeVars, envVars>>

(* _save_daily_log, line 50: open(log_path, 'w') creates or empties the file. *)
OpenStep(w) ==
    /\ wk[w].pc = "open"
    /\ files' = [files EXCEPT ![get_daily_log_path(wk[w].timestamp)] = Truncated]
    /\ wk' = [wk EXCEPT ![w].pc = "dump", ![w].ops = Append(@, "open")]
    /\ UNCHANGED <<files0, rd, calls, appended, race, clientVars, pipeVars, envVars>>

(* A save that would write a journal of one entry as the bare entry. *)
DumpStepBare(w) ==
    /\ wk[w].pc = "dump"
    /\ LET path == get_daily_log_path(wk[w].timestamp)
           doc == IF Len(wk[w].entries) = 1 THEN ToJson(wk[w].entries[1])
                  ELSE ToJson(PyList(wk[w].entries))
       IN  files' = [files EXCEPT ![path] = WriteAt0(@, doc)]
    /\ wk' = [wk EXCEPT ![w].pc = "done",
                        ![w].ops = Append(@, "write"),
                        ![w].result = TRUE]
    /\ appended' = [appended EXCEPT ![wk[w].timestamp.date] =
                        Append(@, MakeEntry(wk[w].food_items, wk[w].timestamp))]
    /\ race' = [race EXCEPT !.order = Append(@, w),
                            !.overlap = @ \/ wk[Other(w)].pc = "dump"]
    /\ UNCHANGED <<files0, rd, calls, clientVars, pipeVars, envVars>>

(* _save_daily_log, lines 51-52 and store_food_entry, lines 97-98: json.dump *)
(* fills the file object's buffer, the end of the with block writes it at    *)
(* offset 0 and closes the file; the call returns True.                      *)
DumpStep(w) ==
    /\ wk[w].pc = "dump"
    /\ LET path == get_daily_log_path(wk[w].timestamp)
           doc == ToJson(PyList(wk[w].entries))
       IN  files' = [files EXCEPT ![path] = WriteAt0(@, doc)]
    /\ wk' = [wk EXCEPT ![w].pc = "done",
                        ![w].ops = Append(@, "write"),
                        ![w].result = TRUE]
    /\ appended' = [appended EXCEPT ![wk[w].timestamp.date] =
                        Append(@, MakeEntry(wk[w].food_items, wk[w].timestamp))]
    /\ race' = [race EXCEPT !.order = Append(@, w),
                            !.overlap = @ \/ wk[Other(w)].pc = "dump"]
    /\ UNCHANGED <<files0, rd, calls, clientVars, pipeVars, envVars>>

(* _save_daily_log, lines 50 and 53-55, store_food_entry, lines 100-102:    *)
(* open(log_path, 'w') raises IOError; it is printed, raised again, caught  *)
(* as Exception, and the call returns False. The file is as it was.         *)
OpenFails(w) ==
    /\ wk[w].pc = "open"
    /\ wk' = [wk EXCEPT ![w].pc = "done", ![w].ops = Append(@, "open failed")]
    /\ UNCHANGED <<files, files0, rd, calls, appended, race, clientVars, pipeVars, envVars>>

(* _save_daily_log, lines 51-55, store_food_entry, lines 100-102: writing   *)
(* the buffer raises IOError (the disk is full); the file, emptied by the   *)
(* open, holds nothing or a part of the document; the call returns False.   *)
DumpFails(w) ==
    /\ wk[w].pc = "dump"
    /\ LET path == get_daily_log_path(wk[w].timestamp)
           size == JsonSize(ToJson(PyList(wk[w].entries)), 0)
       IN  \E part \in {Truncated, Garbage(size - 1)} :
              files' = [files EXCEPT ![path] = IF @.len = 0 THEN part ELSE @]
    /\ wk' = [wk EXCEPT ![w].pc = "done", ![w].ops = Append(@, "write failed")]
    /\ UNCHANGED <<files0, rd, calls, appended, race, clientVars, pipeVars, envVars>>

(* The caller has the result; the worker is free for the next call. *)
Return(w) ==
    /\ wk[w].pc = "done"
    /\ wk' = [wk EXCEPT ![w] = IdleWorker]
    /\ UNCHANGED <<files, files0, rd, calls, appended, race, clientVars, pipeVars, envVars>>

(* FoodStorage.get_daily_entries(date), lines 104-106: what _load_daily_log *)
(* returns, or the exception it raises.                                     *)
InProgress(w) == wk[w].pc \in {"load", "open", "dump"}

(* A read that repairs what it finds: it writes the list it returns over a  *)
(* file that is missing or holds anything but a list.                       *)
ReadEntriesRewriting(d) ==
    /\ rd' = [NoRead EXCEPT !.date = d,
                            !.result = IF LoadRaises(files, DayOf(d)) THEN <<>>
                                       ELSE get_daily_entries(files, DayOf(d)),
                            !.raised = LoadRaises(files, DayOf(d))]
    /\ LET path == get_daily_log_path(DayOf(d))
       IN  files' = [files EXCEPT ![path] =
                        IF @.doc.k = "array" THEN @
                        ELSE TextOf(ToJson(PyList(rd'.result)))]
    /\ UNCHANGED <<files0, wk, calls, appended, race, clientVars, pipeVars, envVars>>

ReadEntries(d) ==
    /\ rd' = LET busy == {w \in Workers : InProgress(w)}
                 one == CHOOSE w \in busy : TRUE
                 mid == /\ Cardinality(busy) = 1
                        /\ wk[one].timestamp.date = d
                        /\ \A w \in Workers \ busy : wk[w].pc = "idle"
                 pre == IF mid THEN load_daily_log(wk[one].before, DayOf(d)) ELSE <<>>
             IN  [date |-> d,
                  result |-> IF LoadRaises(files, DayOf(d)) THEN <<>>
                             ELSE get_daily_entries(files, DayOf(d)),
                  raised |-> LoadRaises(files, DayOf(d)),
                  mid |-> mid,
                  pre |-> pre,
                  post |-> IF mid
                           THEN Append(pre, MakeEntry(wk[one].food_items,
                                                      wk[one].timestamp))
                           ELSE <<>>]
    /\ UNCHANGED <<files, files0, wk, calls, appended, race, clientVars, pipeVars, envVars>>

----------------------------------------------------------------------------
(* The service clients: TranscriptionService and FoodProcessor.             *)

max_retries == 3
initial_retry_delay == 1

Kinds == {"transcriber", "extractor"}

(* What one requests.post can come to: a response with a status and a body, *)
(* or an exception (a connection error or the 30 s timeout, both            *)
(* RequestException; for the extractor also a 200 response whose JSON lacks *)
(* choices[0].message.content).                                             *)
Response(status, body) == [status |-> status, body |-> body, fault |-> ""]
Raised(fault) == [status |-> 0, body |-> <<>>, fault |-> fault]
BadBody == [status |-> 200, body |-> <<>>, fault |-> "KeyError"]

GoodReply ==
    <<LB, KEY("items"), LS, LB, KEY("food"), STR("egg"), KEY("quantity"), STR("2"),
      RB, RS, RB>>

TranscriberReplies ==
    { Response(200, <<W("I ate two eggs"), WS>>),
      Response(200, <<WS>>),
      Response(500, <<W("Server error")>>),
      Raised("ConnectionError"),
      Raised("Timeout") }

ExtractorReplies ==
    { Response(200, GoodReply),
      Response(200, <<FO>> \o GoodReply \o <<FC, WS>>),
      Response(200, <<W("no json here")>>),
      Response(200, <<LB, RB>>),
      Response(500, <<W("Server error")>>),
      BadBody,
      Raised("Timeout") }

Replies(kind) == IF kind = "transcriber" THEN TranscriberReplies ELSE ExtractorReplies

(* The audio files that exist (os.path.exists). *)
ExistingAudio == {"upload.wav"}

CallInputs(kind) ==
    IF kind = "transcriber"
    THEN {PyStr("upload.wav"), PyStr("missing.wav")}
    ELSE {PyText(<<W("I ate two eggs")>>), PyText(<<WS>>), PyText(<<>>)}

(* __init__: a new object starts with retry_delay = 1. *)
NewClient == [retry_delay |-> initial_retry_delay, calls |-> 0]

NoCall ==
    [kind |-> "", pc |-> "none", input |-> PyNone, attempt |-> 0, requests |-> 0,
     waits |-> <<>>, log |-> <<>>, result |-> PyNone]

ClientStart ==
    /\ cl = [kind \in Kinds |-> NewClient]
    /\ call = NoCall

(* A check that would let a description of spaces through. *)
RefusedEmptyOnly(kind, input) ==
    IF kind = "transcriber"
    THEN input.v \notin ExistingAudio
    ELSE Falsy(input)

(* transcribe_audio, lines 29-31, and parse_food_description, lines 69-71: *)
(* the input is refused before any request.                                *)
Refused(kind, input) ==
    IF kind = "transcriber"
    THEN input.v \notin ExistingAudio
    ELSE Falsy(input) \/ Falsy(PyText(strip(input.v)))

BeginCall(kind, input) ==
    [kind |-> kind,
     pc |-> IF Refused(kind, input) THEN "done" ELSE "request",
     input |-> input, attempt |-> 0, requests |-> 0,
     waits |-> <<>>, log |-> <<>>, result |-> PyNone]

Construct(kind) ==
    /\ call.pc \in {"none", "done"}
    /\ cl[kind].calls > 0
    /\ cl' = [cl EXCEPT ![kind] = NewClient]
    /\ call' = NoCall

CallBegin(kind, input) ==
    /\ call.pc \in {"none", "done"}
    /\ cl[kind].calls < MaxCalls
    /\ cl' = [cl EXCEPT ![kind].calls = @ + 1]
    /\ call' = BeginCall(kind, input)

(* What the attempt returns to the caller, or NoPayload when it failed:     *)
(* transcribe_audio, lines 53-63; parse_food_description, lines 101-119.    *)
NoPayload == [k |-> "nothing", v |-> ""]

Payload(kind, reply) ==
    IF reply.fault # "" \/ reply.status # 200 THEN NoPayload
    ELSE IF kind = "transcriber" THEN PyText(strip(reply.body))
    ELSE LET parsed_data == extract_json(strip(reply.body))
         IN  IF Falsy(parsed_data) THEN NoPayload ELSE parsed_data

(* The exceptions an attempt raises: those of requests (a connection error, *)
(* the timeout) and those of reading the response body.                     *)
RequestExceptions == {"ConnectionError", "Timeout"}
Exceptions == RequestExceptions \cup {"KeyError"}

(* A loop that would catch the exceptions of requests alone. *)
CaughtRequestOnly(fault) == fault \in RequestExceptions

(* Lines 60-63 (transcription.py) and 116-119 (processing.py):              *)
(* except requests.exceptions.RequestException, then except Exception.      *)
Caught(fault) == fault \in RequestExceptions \/ fault \in Exceptions

(* A wait that would follow the last attempt too. *)
ShouldWaitAlways(attempt) == TRUE

(* Lines 65 (transcription.py) and 121 (processing.py) *)
ShouldWait(attempt) == attempt < max_retries - 1

(* One turn of the for loop up to the wait: the request and what it leads   *)
(* to. An exception that no except clause catches leaves the call.          *)
Attempt(reply) ==
    /\ call.pc = "request"
    /\ LET got == Payload(call.kind, reply)
           sent == [call EXCEPT !.requests = @ + 1, !.log = Append(@, reply)]
       IN  call' =
             IF reply.fault # "" /\ ~Caught(reply.fault)
             THEN [sent EXCEPT !.pc = "raised"]
             ELSE IF got # NoPayload
             THEN [sent EXCEPT !.pc = "done", !.result = got]
             ELSE IF ShouldWait(call.attempt)
             THEN [sent EXCEPT !.pc = "sleep"]
             ELSE IF call.attempt + 1 < max_retries
             THEN [sent EXCEPT !.pc = "request", !.attempt = @ + 1]
             ELSE [sent EXCEPT !.pc = "done", !.attempt = @ + 1, !.result = PyNone]
    /\ UNCHANGED <<cl, storeVars, pipeVars, envVars>>

(* A backoff that would not grow. *)
SleepSame ==
    /\ call.pc = "sleep"
    /\ call' = [call EXCEPT !.waits = Append(@, cl[call.kind].retry_delay),
                            !.attempt = @ + 1,
                            !.pc = "request"]
    /\ UNCHANGED <<cl, storeVars, pipeVars, envVars>>

(* Lines 66-68 (transcription.py) and 122-124 (processing.py):              *)
(* time.sleep(self.retry_delay); self.retry_delay *= 2                      *)
Sleep ==
    /\ call.pc = "sleep"
    /\ call' = [call EXCEPT !.waits = Append(@, cl[call.kind].retry_delay),
                            !.attempt = @ + 1,
                            !.pc = IF call.attempt + 1 < max_retries
                                   THEN "request" ELSE "done"]
    /\ cl' = [cl EXCEPT ![call.kind].retry_delay = @ * 2]
    /\ UNCHANGED <<storeVars, pipeVars, envVars>>


----------------------------------------------------------------------------
(* The upload handler: app.py, upload_audio.                                *)

Clock ==
    << [date |-> "2024-01-15", time |-> "10:30:00"],
       [date |-> "2024-01-15", time |-> "14:30:00"],
       [date |-> "2024-01-16", time |-> "10:30:00"],
       [date |-> "2024-01-16", time |-> "14:30:00"] >>

(* datetime.now() *)
datetime_now == Clock[now]

(* The multipart request: whether it has an audio part, and the part's file *)
(* name split at its dots.                                                  *)
Upload(has, filename) == [has |-> has, filename |-> filename]

Uploads ==
    { Upload(FALSE, <<>>),
      Upload(TRUE, <<>>),
      Upload(TRUE, <<"meal", "WAV">>),
      Upload(TRUE, <<"meal", "txt">>),
      Upload(TRUE, <<"notes">>) }

ALLOWED_EXTENSIONS == {"wav", "mp3", "mp4", "m4a", "ogg", "webm"}

(* str.lower() on the extensions of the uploads *)
lower(x) == IF x = "WAV" THEN "wav" ELSE x

(* A check that would ask for a dot in the name and nothing more. *)
AllowedAny(filename) == Len(filename) >= 2

(* allowed_file, lines 16-19 *)
allowed_file(filename) ==
    /\ Len(filename) >= 2
    /\ lower(filename[Len(filename)]) \in ALLOWED_EXTENSIONS

NoResponse ==
    [status |-> 0, error |-> "", transcription |-> PyNone, items |-> PyNone,
     timestamp |-> ""]

ErrorResponse(status, error) == [NoResponse EXCEPT !.status = status, !.error = error]

(* A request being handled: where the handler is, the request, whether the  *)
(* temporary directory exists and whether it was ever made, the results of  *)
(* the stages, the stages invoked, the one that failed, the text of the     *)
(* exception the handler caught at line 90 and the response.                *)
IdleRun ==
    [pc |-> "idle", req |-> Upload(FALSE, <<>>), temp |-> FALSE, acquired |-> FALSE,
     transcription |-> PyNone, parsed_data |-> PyNone,
     stages |-> <<>>, failed |-> "", exception |-> "", response |-> NoResponse]

PipeStart ==
    /\ run = IdleRun
    /\ now = 1

(* The clock moves while a request is handled. *)
Tick ==
    /\ run.pc \in {"transcribing", "extracting", "storing"}
    /\ now < Len(Clock)
    /\ now' = now + 1
    /\ UNCHANGED <<run, storeVars, clientVars, envVars>>

(* Lines 32-40: a request without a usable audio part is answered 400. *)
RejectUpload(req) ==
    /\ run.pc = "idle"
    /\ ~req.has \/ req.filename = <<>> \/ ~allowed_file(req.filename)
    /\ run' = [run EXCEPT
                 !.pc = "done",
                 !.req = req,
                 !.response =
                    IF ~req.has THEN ErrorResponse(400, "No audio file provided")
                    ELSE IF req.filename = <<>> THEN ErrorResponse(400, "No file selected")
                    ELSE ErrorResponse(400, "Invalid file format")]
    /\ UNCHANGED <<now, storeVars, clientVars, envVars>>

(* Lines 90-92: the response to an exception e, built from str(e). *)
ExceptionResponse(text) == ErrorResponse(500, "Processing failed: " \o text)

(* str(e) of the OSError that file.save raises. *)
SaveErrors == {"[Errno 28] No space left on device", "[Errno 13] Permission denied"}

(* Lines 43-46 and 90-92: tempfile.mkdtemp() has made the directory and     *)
(* file.save(temp_path) raises (the disk is full, the upload stream breaks). *)
(* The statement stands before the inner try, so the finally block does not *)
(* run; the handler of Exception answers 500 and the directory stays.       *)
SaveFailed(req) ==
    /\ run.pc = "idle"
    /\ req.has /\ req.filename # <<>> /\ allowed_file(req.filename)
    /\ \E text \in SaveErrors :
          run' = [run EXCEPT !.pc = "done", !.req = req,
                            !.temp = TRUE, !.acquired = TRUE,
                            !.exception = text,
                            !.response = ExceptionResponse(text)]
    /\ UNCHANGED <<now, storeVars, clientVars, envVars>>

(* A handler that would keep one TranscriptionService for all uploads. *)
StartTranscriptionShared(req) ==
    /\ run.pc = "idle"
    /\ req.has /\ req.filename # <<>> /\ allowed_file(req.filename)
    /\ run' = [run EXCEPT !.pc = "transcribing", !.req = req,
                          !.temp = TRUE, !.acquired = TRUE,
                          !.stages = Append(@, "transcription")]
    /\ cl' = [cl EXCEPT !["transcriber"].calls = @ + 1]
    /\ call' = BeginCall("transcriber", PyStr("upload.wav"))
    /\ UNCHANGED <<now, storeVars, envVars>>

(* Lines 43-51: the upload is saved in a new temporary directory, then      *)
(* transcribe_file builds a TranscriptionService and calls transcribe_audio *)
(* on the saved file.                                                       *)
StartTranscription(req) ==
    /\ run.pc = "idle"
    /\ req.has /\ req.filename # <<>> /\ allowed_file(req.filename)
    /\ run' = [run EXCEPT !.pc = "transcribing", !.req = req,
                          !.temp = TRUE, !.acquired = TRUE,
                          !.stages = Append(@, "transcription")]
    /\ cl' = [cl EXCEPT !["transcriber"] = [NewClient EXCEPT !.calls = 1]]
    /\ call' = BeginCall("transcriber", PyStr("upload.wav"))
    /\ UNCHANGED <<now, storeVars, envVars>>

(* A handler that would start the transcription again when it failed. *)
TranscriptionRetried ==
    /\ run.pc = "transcribing" /\ call.pc = "done"
    /\ Falsy(call.result)
    /\ run' = [run EXCEPT !.stages = Append(@, "transcription")]
    /\ cl' = [cl EXCEPT !["transcriber"] = [NewClient EXCEPT !.calls = 1]]
    /\ call' = BeginCall("transcriber", PyStr("upload.wav"))
    /\ UNCHANGED <<now, storeVars, envVars>>

(* A handler that would take the upload anew when the transcription failed. *)
TranscriptionFailedStartsOver ==
    /\ run.pc = "transcribing" /\ call.pc = "done"
    /\ Falsy(call.result)
    /\ run' = IdleRun
    /\ UNCHANGED <<now, storeVars, clientVars, envVars>>

(* Lines 52-53: no transcription, no further stage. The finally block       *)
(* (82-88) removes the temporary file and directory.                        *)
TranscriptionFailed ==
    /\ run.pc = "transcribing" /\ call.pc = "done"
    /\ Falsy(call.result)
    /\ run' = [run EXCEPT !.pc = "done", !.temp = FALSE,
                          !.transcription = call.result,
                          !.failed = "transcription",
                          !.response = ErrorResponse(500, "Failed to transcribe audio")]
    /\ UNCHANGED <<now, storeVars, clientVars, envVars>>

(* A handler that would go on with whatever the transcriber returned but    *)
(* None.                                                                    *)
StartExtractionAlways ==
    /\ run.pc = "transcribing" /\ call.pc = "done"
    /\ call.result # PyNone
    /\ run' = [run EXCEPT !.pc = "extracting",
                          !.transcription = call.result,
                          !.stages = Append(@, "extraction")]
    /\ cl' = [cl EXCEPT !["extractor"] = [NewClient EXCEPT !.calls = 1]]
    /\ call' = BeginCall("extractor", call.result)
    /\ UNCHANGED <<now, storeVars, envVars>>

(* Line 59: process_food_text builds a FoodProcessor and calls          *)
(* parse_food_description on the transcription.                             *)
StartExtraction ==
    /\ run.pc = "transcribing" /\ call.pc = "done"
    /\ ~Falsy(call.result)
    /\ run' = [run EXCEPT !.pc = "extracting",
                          !.transcription = call.result,
                          !.stages = Append(@, "extraction")]
    /\ cl' = [cl EXCEPT !["extractor"] = [NewClient EXCEPT !.calls = 1]]
    /\ call' = BeginCall("extractor", call.result)
    /\ UNCHANGED <<now, storeVars, envVars>>

(* FoodProcessor.validate_parsed_data, lines 154-173 *)
validate_parsed_data(data) ==
    /\ data.k = "dict"
    /\ "items" \in DOMAIN data.v
    /\ data.v["items"].k = "list"
    /\ \A i \in 1..Len(data.v["items"].v) :
          LET item == data.v["items"].v[i]
          IN  /\ item.k = "dict"
              /\ "food" \in DOMAIN item.v /\ "quantity" \in DOMAIN item.v
              /\ item.v["food"].k = "str" /\ item.v["quantity"].k = "str"

(* The strings that contain "items" among those a reply can parse to. *)
ContainsItems(x) == x \in {"items", "my items"}

(* Line 60, "not parsed_data or 'items' not in parsed_data", and line 67,   *)
(* parsed_data['items']: what they come to for each type json.loads gives.  *)
ItemsCheck(parsed_data) ==
    IF Falsy(parsed_data) THEN "no items"
    ELSE CASE parsed_data.k = "dict" ->
                IF "items" \in DOMAIN parsed_data.v THEN "items" ELSE "no items"
           [] parsed_data.k = "list" ->
                IF \E i \in 1..Len(parsed_data.v) : parsed_data.v[i] = PyStr("items")
                THEN "list indices must be integers or slices, not str"
                ELSE "no items"
           [] parsed_data.k = "str" ->
                IF ContainsItems(parsed_data.v)
                THEN "string indices must be integers, not 'str'"
                ELSE "no items"
           [] OTHER -> "argument of type 'int' is not iterable"

(* Lines 60-61 *)
ExtractionFailed ==
    /\ run.pc = "extracting" /\ call.pc = "done"
    /\ ItemsCheck(call.result) = "no items"
    /\ run' = [run EXCEPT !.pc = "done", !.temp = FALSE,
                          !.parsed_data = call.result,
                          !.failed = "extraction",
                          !.response = ErrorResponse(500, "Failed to parse food description")]
    /\ UNCHANGED <<now, storeVars, clientVars, envVars>>

(* Lines 60 and 67 raise on a reply that parsed to something else than an   *)
(* object; lines 82-92: the finally block cleans up, the handler of         *)
(* Exception answers 500 with the text of the exception.                    *)
ExtractionRaised ==
    /\ run.pc = "extracting" /\ call.pc = "done"
    /\ ItemsCheck(call.result) \notin {"no items", "items"}
    /\ run' = [run EXCEPT !.pc = "done", !.temp = FALSE,
                          !.parsed_data = call.result,
                          !.failed = "extraction",
                          !.exception = ItemsCheck(call.result),
                          !.response = ExceptionResponse(ItemsCheck(call.result))]
    /\ UNCHANGED <<now, storeVars, clientVars, envVars>>

(* A storage stage that would store the first item alone. *)
StartStorageFirstItem ==
    /\ run.pc = "extracting" /\ call.pc = "done"
    /\ ItemsCheck(call.result) = "items"
    /\ run' = [run EXCEPT !.pc = "storing",
                          !.parsed_data = call.result,
                          !.stages = Append(@, "storage")]
    /\ StoreEntry(1, IF call.result.v["items"].k = "list"
                        /\ Len(call.result.v["items"].v) > 1
                     THEN PyList(<<call.result.v["items"].v[1]>>)
                     ELSE call.result.v["items"], datetime_now)
    /\ UNCHANGED <<now, rd, clientVars, envVars>>

(* Line 67: store_food_data(parsed_data['items']) builds a FoodStorage  *)
(* and calls store_food_entry with the time of the call.                    *)
StartStorage ==
    /\ run.pc = "extracting" /\ call.pc = "done"
    /\ ItemsCheck(call.result) = "items"
    /\ run' = [run EXCEPT !.pc = "storing",
                          !.parsed_data = call.result,
                          !.stages = Append(@, "storage")]
    /\ StoreEntry(1, call.result.v["items"], datetime_now)
    /\ UNCHANGED <<now, rd, clientVars, envVars>>

(* Line 67 and storage.py, lines 139 and 7-14: store_food_data builds a     *)
(* FoodStorage, whose constructor makes the logs directory when             *)
(* os.path.exists says there is none; os.makedirs raises OSError (the       *)
(* working directory is read-only, or logs is a dangling link). Nothing     *)
(* catches it before the handler of Exception, lines 82-92.                 *)
StorageRaised ==
    /\ run.pc = "extracting" /\ call.pc = "done"
    /\ ItemsCheck(call.result) = "items"
    /\ run' = [run EXCEPT !.pc = "done", !.temp = FALSE,
                          !.parsed_data = call.result,
                          !.stages = Append(@, "storage"),
                          !.failed = "storage",
                          !.exception = "[Errno 17] File exists: 'logs'",
                          !.response = ExceptionResponse("[Errno 17] File exists: 'logs'")]
    /\ wk' = [wk EXCEPT ![1].ops = <<"makedirs failed">>]
    /\ UNCHANGED <<now, files, files0, rd, calls, appended, race, clientVars, envVars>>

(* Lines 68-69 *)
StorageFailed ==
    /\ run.pc = "storing" /\ wk[1].pc = "done"
    /\ ~wk[1].result
    /\ run' = [run EXCEPT !.pc = "done", !.temp = FALSE,
                          !.failed = "storage",
                          !.response = ErrorResponse(500, "Failed to store food data")]
    /\ UNCHANGED <<now, storeVars, clientVars, envVars>>

(* Lines 72-80: the success response, with the time of the response. *)
Succeeded ==
    /\ run.pc = "storing" /\ wk[1].pc = "done"
    /\ wk[1].result
    /\ run' = [run EXCEPT !.pc = "done", !.temp = FALSE,
                          !.response =
                             [status |-> 200, error |-> "",
                              transcription |-> run.transcription,
                              items |-> run.parsed_data.v["items"],
                              timestamp |-> isoformat(datetime_now)]]
    /\ UNCHANGED <<now, storeVars, clientVars, envVars>>

(* The replies of the language model that the handler goes on with. *)
ItemsReply(body) == <<LB, KEY("items")>> \o body \o <<RB>>

PipeExtractorReplies ==
    { Response(200, <<FO>> \o GoodReply \o <<FC>>),
      Response(200, ItemsReply(<<LS, LB, KEY("food"), STR("egg"), KEY("quantity"), STR("2"), RB,
                                  LB, KEY("food"), STR("banana"), KEY("quantity"), STR("1"), RB,
                                  RS>>)),
      Response(200, ItemsReply(<<LS, LB, KEY("food"), NUM("123"), KEY("quantity"), STR("150g"),
                                  RB, RS>>)),
      Response(200, ItemsReply(<<LS, LB, KEY("food"), STR("egg"), RB, RS>>)),
      Response(200, ItemsReply(<<LS, STR("egg"), RS>>)),
      Response(200, ItemsReply(<<STR("egg")>>)),
      Response(200, ItemsReply(<<LS, RS>>)),
      Response(200, <<LB, KEY("foods"), LS, RS, RB>>),
      Response(200, <<NUM("5")>>),
      Response(200, <<STR("my items")>>),
      Response(200, <<LS, STR("items"), RS>>),
      Response(200, <<W("no json here")>>),
      Response(500, <<W("Server error")>>) }

PipeTranscriberReplies ==
    { Response(200, <<W("I ate two eggs and a banana"), WS>>),
      Response(200, <<WS>>),
      Response(500, <<W("Server error")>>),
      Raised("Timeout") }

PipeReplies(kind) ==
    IF kind = "transcriber" THEN PipeTranscriberReplies ELSE PipeExtractorReplies

----------------------------------------------------------------------------
(* The process: the credential in its environment and the start of app.py,  *)
(* lines 147-162.                                                           *)

Keys == {"", "gsk_test_key"}

(* served counts the uploads the process has answered; last holds the     *)
(* retry_delay that the clients of the upload answered last were left with. *)
Process(key, pc) ==
    [key |-> key, pc |-> pc, served |-> 0,
     last |-> [kind \in Kinds |-> initial_retry_delay]]

(* app.run, line 162, and the route of upload_audio, line 26: the response *)
(* has been returned and the process takes the next upload. The objects    *)
(* the handler built are out of reach; the files stay.                     *)
NextUpload ==
    /\ run.pc = "done"
    /\ env.served + 1 < MaxUploads
    /\ run' = IdleRun
    /\ wk' = [wk EXCEPT ![1] = IdleWorker]
    /\ call' = NoCall
    /\ env' = [env EXCEPT !.served = @ + 1,
                          !.last = [kind \in Kinds |-> cl[kind].retry_delay]]
    /\ UNCHANGED <<files, files0, rd, calls, appended, race, cl, now, fn>>

(* No function of processing.py is being applied. *)
NoApplication == [op |-> "none", arg |-> PyNone, out |-> PyNone]

(* No object of the class has been constructed. *)
NoClient == [retry_delay |-> 0, calls |-> 0]

(* TranscriptionService.__init__, lines 10-17, and FoodProcessor.__init__,  *)
(* lines 12-23: os.getenv('GROQ_API_KEY'), and ValueError when it is None   *)
(* or empty; no object is made then.                                        *)
TryConstruct(kind) ==
    /\ run.pc = "idle" /\ env.pc = "starting"
    /\ call.pc \in {"none", "done", "ValueError"}
    /\ cl[kind] = NoClient \/ cl[kind].calls > 0
    /\ cl' = [cl EXCEPT ![kind] = IF env.key = "" THEN NoClient ELSE NewClient]
    /\ call' = IF env.key = "" THEN [NoCall EXCEPT !.kind = kind, !.pc = "ValueError"]
                ELSE NoCall
    /\ UNCHANGED <<storeVars, pipeVars, envVars>>

(* A start that would not look at the environment. *)
MainWithoutCheck ==
    /\ env.pc = "starting"
    /\ \A kind \in Kinds : cl[kind] = NoClient
    /\ env' = [env EXCEPT !.pc = "serving"]
    /\ UNCHANGED <<fn, storeVars, clientVars, pipeVars>>

(* app.py, lines 147-162, in a process that holds no client object yet:     *)
(* without GROQ_API_KEY it prints an error and exits with status 1; with    *)
(* it, it makes the directories and serves.                                 *)
Main ==
    /\ env.pc = "starting"
    /\ \A kind \in Kinds : cl[kind] = NoClient
    /\ env' = [env EXCEPT !.pc = IF env.key = "" THEN "exited" ELSE "serving"]
    /\ UNCHANGED <<fn, storeVars, clientVars, pipeVars>>

(* The functions of processing.py applied on their own.                    *)

PyBool(b) == [k |-> "bool", v |-> IF b THEN "True" ELSE "False"]

(* The texts _extract_json is given: every text of up to MaxText symbols,   *)
(* the JSON objects among them and two replies of the model, and each of    *)
(* these objects in a fenced block, bare or after a sentence.               *)
Alphabet ==
    {LB, RB, LS, RS, FO, FC, WS, W("no json here"), KEY("items"), STR("egg"), NUM("5")}

ShortTexts == UNION {[1..n -> Alphabet] : n \in 0..MaxText}

TwoItemsReply ==
    ItemsReply(<<LS, LB, KEY("food"), STR("egg"), KEY("quantity"), STR("2"), RB,
                 LB, KEY("food"), STR("banana"), KEY("quantity"), STR("1"), RB, RS>>)

ObjectTexts ==
    {q \in ShortTexts : ~JSONDecodeError(q) /\ json_loads(q).k = "dict"}
        \cup {GoodReply, TwoItemsReply}

Fenced(q) == <<FO>> \o q \o <<FC>>

ExtractInputs ==
    ShortTexts \cup ObjectTexts
        \cup {Fenced(q) : q \in ObjectTexts}
        \cup {<<W("Here is the JSON:"), WS>> \o Fenced(q) : q \in ObjectTexts}

(* The values validate_parsed_data is given: objects whose items are lists  *)
(* of up to MaxItems elements, each with or without each field, the field a *)
(* string, an empty string or a number, and values of other shapes.         *)
FieldValues == {PyStr("egg"), PyStr(""), PyInt("123")}

ItemVariants ==
    {PyDict([food |-> f, quantity |-> q]) : f \in FieldValues, q \in FieldValues}
        \cup {PyDict([food |-> f]) : f \in FieldValues}
        \cup {PyDict([quantity |-> q]) : q \in FieldValues}
        \cup {PyStr("egg")}

ValidateInputs ==
    {PyDict([items |-> PyList(q)]) : q \in UNION {[1..n -> ItemVariants] : n \in 0..MaxItems}}
        \cup { PyDict([items |-> PyStr("egg")]),
               PyDict([foods |-> PyList(<<>>)]),
               PyList(<<>>), PyStr("items"), PyNone }

(* FoodProcessor._extract_json(text) *)
ExtractJson ==
    /\ fn.op = "none" /\ fn.arg.k = "text"
    /\ fn' = [fn EXCEPT !.op = "_extract_json", !.out = extract_json(fn.arg.v)]
    /\ UNCHANGED <<env, storeVars, clientVars, pipeVars>>

(* FoodProcessor.validate_parsed_data(data), on a value or on what          *)
(* _extract_json returned.                                                  *)
ValidateParsedData ==
    /\ \/ fn.op = "none" /\ fn.arg.k # "text"
       \/ fn.op = "_extract_json"
    /\ LET data == IF fn.op = "none" THEN fn.arg ELSE fn.out
       IN  fn' = [op |-> "validate_parsed_data", arg |-> data,
                  out |-> PyBool(validate_parsed_data(data))]
    /\ UNCHANGED <<env, storeVars, clientVars, pipeVars>>

(* The service is up, with its credential. *)
EnvStart ==
    /\ env = Process("gsk_test_key", "serving")
    /\ fn = NoApplication

----------------------------------------------------------------------------
(* The specifications.                                                      *)

Quiet == \A w \in Workers : wk[w].pc \in {"idle", "done"}

(* The journal store with one caller: it makes its calls one after the      *)
(* other, and a new append drops what its last read returned.               *)
InitStore ==
    (\E fs \in InitialFiles : StoreStart(fs)) /\ ClientStart /\ PipeStart /\ EnvStart

NextStore ==
    \/ \E food_items \in FoodItemsInputs, t \in Timestamps :
          /\ calls < MaxAppends
          /\ StoreEntry(1, food_items, t)
          /\ rd' = NoRead
          /\ UNCHANGED <<clientVars, pipeVars, envVars>>
    \/ LoadStep(1)
    \/ OpenStep(1)
    \/ DumpStep(1)
    \/ Return(1)
    \/ \E d \in Days : Quiet /\ rd = NoRead /\ ReadEntries(d)

SpecStore == InitStore /\ [][NextStore]_vars

(* Two requests at once (the server is threaded and storage.py takes no     *)
(* lock): each worker makes one store_food_data call, a third reads.        *)
NextRace ==
    \/ \E w \in Workers, food_items \in ValidInputs, t \in Timestamps :
          StoreEntry(w, food_items, t) /\ UNCHANGED <<rd, clientVars, pipeVars, envVars>>
    \/ \E w \in Workers : LoadStep(w)
    \/ \E w \in Workers : OpenStep(w)
    \/ \E w \in Workers : DumpStep(w)
    \/ \E d \in Days : rd = NoRead /\ ReadEntries(d)

SpecRace == InitStore /\ [][NextRace]_vars

(* The two clients, called directly: objects are built, used for up to      *)
(* MaxCalls calls each and replaced.                                        *)
InitClient == StoreStart(NoFiles) /\ ClientStart /\ PipeStart /\ EnvStart

NextClient ==
    \/ \E kind \in Kinds : Construct(kind) /\ UNCHANGED <<storeVars, pipeVars, envVars>>
    \/ \E kind \in Kinds : \E input \in CallInputs(kind) :
          CallBegin(kind, input) /\ UNCHANGED <<storeVars, pipeVars, envVars>>
    \/ \E reply \in Replies(call.kind) : Attempt(reply)
    \/ Sleep

SpecClient == InitClient /\ [][NextClient]_vars

(* One upload, handled from the request to the response. *)
InitPipe == InitStore

NextPipe ==
    \/ \E req \in Uploads : RejectUpload(req)
    \/ \E req \in Uploads : SaveFailed(req)
    \/ \E req \in Uploads : StartTranscription(req)
    \/ \E reply \in PipeReplies(call.kind) : Attempt(reply)
    \/ Sleep
    \/ TranscriptionFailed
    \/ StartExtraction
    \/ ExtractionFailed
    \/ ExtractionRaised
    \/ StartStorage
    \/ LoadStep(1)
    \/ OpenStep(1)
    \/ DumpStep(1)
    \/ OpenFails(1)
    \/ DumpFails(1)
    \/ StorageRaised
    \/ StorageFailed
    \/ Succeeded
    \/ Tick

SpecPipe == InitPipe /\ [][NextPipe]_vars

(* The replies of the two services for the runs followed to their end: a   *)
(* transcription, a blank one, a payload, a reply that parses to a string, *)
(* a server error and the timeout.                                         *)
LiveReplies(kind) ==
    IF kind = "transcriber"
    THEN { Response(200, <<W("I ate two eggs and a banana"), WS>>),
           Response(200, <<WS>>),
           Response(500, <<W("Server error")>>),
           Raised("Timeout") }
    ELSE { Response(200, <<FO>> \o GoodReply \o <<FC>>),
           Response(200, <<STR("my items")>>),
           Response(500, <<W("Server error")>>),
           Raised("Timeout") }

(* The steps of the handler once it has taken an upload. The thread that    *)
(* handles the request keeps running, and every requests.post returns or    *)
(* raises within its timeout of 30 s, so a step that can be taken is taken. *)
RunStep ==
    \/ \E reply \in LiveReplies(call.kind) : Attempt(reply)
    \/ Sleep
    \/ TranscriptionFailed
    \/ StartExtraction
    \/ ExtractionFailed
    \/ ExtractionRaised
    \/ StartStorage
    \/ LoadStep(1)
    \/ OpenStep(1)
    \/ DumpStep(1)
    \/ OpenFails(1)
    \/ DumpFails(1)
    \/ StorageRaised
    \/ StorageFailed
    \/ Succeeded

(* One upload handled to its end, the journal empty at its start. *)
InitPipeLive == StoreStart(NoFiles) /\ ClientStart /\ PipeStart /\ EnvStart

NextPipeLive ==
    \/ \E req \in Uploads : RejectUpload(req)
    \/ \E req \in Uploads : SaveFailed(req)
    \/ \E req \in Uploads : StartTranscription(req)
    \/ RunStep
    \/ Tick

SpecPipeLive == InitPipeLive /\ [][NextPipeLive]_vars /\ WF_vars(RunStep)

(* The replies of the two services while the process answers several       *)
(* uploads: a transcription or a payload, or a server error.               *)
ServeReplies(kind) ==
    IF kind = "transcriber"
    THEN { Response(200, <<W("I ate two eggs and a banana"), WS>>),
           Response(500, <<W("Server error")>>) }
    ELSE { Response(200, <<FO>> \o GoodReply \o <<FC>>),
           Response(500, <<W("Server error")>>) }

(* The process answering uploads one after the other, the journal empty at *)
(* its start.                                                              *)
InitServe == StoreStart(NoFiles) /\ ClientStart /\ PipeStart /\ EnvStart

NextServe ==
    \/ \E req \in Uploads : RejectUpload(req)
    \/ \E req \in Uploads : StartTranscription(req)
    \/ \E reply \in ServeReplies(call.kind) : Attempt(reply)
    \/ Sleep
    \/ TranscriptionFailed
    \/ StartExtraction
    \/ ExtractionFailed
    \/ StartStorage
    \/ LoadStep(1)
    \/ OpenStep(1)
    \/ DumpStep(1)
    \/ Succeeded
    \/ Tick
    \/ NextUpload

SpecServe == InitServe /\ [][NextServe]_vars

(* The process from its start, with or without the credential: the classes  *)
(* used directly, or app.py run as the program and then serving uploads.    *)
InitService ==
    /\ StoreStart(NoFiles) /\ PipeStart
    /\ cl = [kind \in Kinds |-> NoClient]
    /\ call = NoCall
    /\ \E key \in Keys : env = Process(key, "starting")
    /\ fn = NoApplication

NextService ==
    \/ Main
    \/ \E kind \in Kinds : TryConstruct(kind)
    \/ \E kind \in Kinds : \E input \in CallInputs(kind) :
          /\ run.pc = "idle" /\ env.pc = "starting"
          /\ cl[kind] # NoClient
          /\ CallBegin(kind, input)
          /\ UNCHANGED <<storeVars, pipeVars, envVars>>
    \/ \E reply \in (IF run.pc = "idle" THEN Replies(call.kind)
                      ELSE PipeReplies(call.kind)) : Attempt(reply)
    \/ Sleep
    \/ env.pc = "serving" /\ NextPipe

SpecService == InitService /\ [][NextService]_vars

(* The two functions of processing.py, each applied to one argument. *)
InitParse ==
    /\ StoreStart(NoFiles) /\ ClientStart /\ PipeStart
    /\ env = Process("gsk_test_key", "serving")
    /\ \E x \in {PyText(q) : q \in ExtractInputs} \cup ValidateInputs :
          fn = [op |-> "none", arg |-> x, out |-> PyNone]

NextParse ==
    \/ ExtractJson
    \/ ValidateParsedData

SpecParse == InitParse /\ [][NextParse]_vars

----------------------------------------------------------------------------
(* Properties of the journal store, one caller (SpecStore).                 *)

PathOfDay(d) == get_daily_log_path(DayOf(d))

(* C1: when append(t, items) has returned success, entriesForDay(date(t))  *)
(* returns a sequence whose last element is exactly                         *)
(* {timestamp: t.isoformat(), items: items}.                                *)
C1_AppendThenReadLast ==
    (wk[1].pc = "done" /\ wk[1].result) =>
        LET t == wk[1].timestamp
            es == get_daily_entries(files, DayOf(t.date))
        IN  /\ Len(es) >= 1
            /\ es[Len(es)] = PyDict([timestamp |-> PyStr(t.date \o "T" \o t.time),
                                     items |-> wk[1].food_items])

(* C1 happens: a successful append to a day that already held an entry. *)
C1_Witness ==
    /\ wk[1].pc = "done" /\ wk[1].result
    /\ Len(get_daily_entries(files, wk[1].timestamp)) >= 2

(* C2: for a day that started with no file, whenever no append is under    *)
(* way the day reads as exactly the entries appended to it, in the order   *)
(* of the appends, whatever the order of their timestamps.                 *)
C2_AppendOrder ==
    \A d \in Days :
        (files0[PathOfDay(d)] = Absent /\ Quiet) =>
            get_daily_entries(files, DayOf(d)) = appended[d]

(* C2 happens: three appends to a day without a file, the second with an   *)
(* earlier time of day than the first.                                     *)
C2_Witness ==
    \E d \in Days :
        /\ files0[PathOfDay(d)] = Absent /\ Quiet
        /\ Len(appended[d]) = 3
        /\ appended[d][1].v.timestamp = PyStr(d \o "T14:30:00")
        /\ appended[d][2].v.timestamp = PyStr(d \o "T10:30:00")
        /\ get_daily_entries(files, DayOf(d)) = appended[d]

(* The item lists C3 is about: empty, not a list, or with an element that  *)
(* lacks the food or the quantity field.                                   *)
C3_BadItems(p) ==
    \/ p.k # "list"
    \/ p.v = <<>>
    \/ \E i \in 1..Len(p.v) :
          \/ p.v[i].k # "dict"
          \/ ~({"food", "quantity"} \subseteq DOMAIN p.v[i].v)

(* C3: an append of such items returns failure, has not read, opened or    *)
(* written any file, and leaves every day's file as it was.                *)
C3_RejectedBeforeDisk ==
    (wk[1].pc = "done" /\ C3_BadItems(wk[1].food_items)) =>
        /\ ~wk[1].result
        /\ wk[1].ops = <<>>
        /\ files = wk[1].before

(* C3 happens: a rejected append to a day that holds entries. *)
C3_Witness ==
    /\ wk[1].pc = "done" /\ C3_BadItems(wk[1].food_items)
    /\ ~wk[1].result
    /\ get_daily_entries(files, wk[1].timestamp) # <<>>

(* A read has been made and the files are as it found them. *)
HasRead == rd.date # ""

ReadFile == files[PathOfDay(rd.date)]

(* C15: entriesForDay for a day that has no journal file returns the empty *)
(* sequence.                                                               *)
C15_NoFileReadsEmpty ==
    (HasRead /\ ReadFile = Absent) => (rd.result = <<>> /\ ~rd.raised)

(* C15 happens: a day without a file is read while the other day holds     *)
(* entries.                                                                *)
C15_Witness ==
    /\ HasRead /\ ReadFile = Absent
    /\ rd.result = <<>>
    /\ \E d \in Days \ {rd.date} : get_daily_entries(files, DayOf(d)) # <<>>

(* C16: entriesForDay for a day whose file holds a single legacy entry     *)
(* object returns a one-element sequence whose only element equals that    *)
(* object.                                                                 *)
C16_LegacyObjectWrapped ==
    (HasRead /\ ReadFile = TextOf(ToJson(OldEntry(rd.date))))
        => (rd.result = <<OldEntry(rd.date)>> /\ ~rd.raised)

(* C16 happens: the day stored as a legacy object has been read. *)
C16_Witness ==
    /\ HasRead /\ ReadFile.k = "text" /\ ReadFile.doc.k = "object"
    /\ Len(rd.result) = 1
    /\ rd.result[1].v.timestamp = PyStr("2024-01-15T08:00:00")

(* The file exists and holds no JSON document: its bytes are not JSON, or  *)
(* not text at all.                                                        *)
Corrupted(c) == c.k # "absent" /\ (DecodeError(c) \/ UnicodeDecodeError(c))

(* C17, as the specification states it: entriesForDay for a day whose file *)
(* is corrupted returns the empty sequence and raises nothing.             *)
C17_CorruptedReadsEmpty ==
    (HasRead /\ Corrupted(ReadFile)) => (rd.result = <<>> /\ ~rd.raised)

(* C30: get_daily_entries and get_today_entries are read-only: the step    *)
(* that makes a read leaves every journal file as it was, so it creates no *)
(* file for a day that has none and rewrites neither a legacy object nor a *)
(* corrupted file.                                                         *)
C30_ReadsAreReadOnly ==
    [][(rd' # rd /\ rd'.date # "") => files' = files]_vars

(* C30 happens: a corrupted file has been read while the other day has no  *)
(* file, and the files are those the store started with.                   *)
C30_Witness ==
    /\ HasRead /\ Corrupted(ReadFile)
    /\ \E d \in Days \ {rd.date} : files[PathOfDay(d)] = Absent
    /\ files = files0

(* C31: store_food_entry reads and writes only the file of its timestamp's *)
(* date. Two timestamps address the same file exactly when they have the   *)
(* same date; during and after the call the files of all other days are as *)
(* they were before it, and the list the call is about to write is what    *)
(* the file of its own day held, followed by the new entry.                *)
C31_OnlyOwnDayTouched ==
    /\ \A t1, t2 \in Timestamps :
          (t1.date = t2.date) <=> (get_daily_log_path(t1) = get_daily_log_path(t2))
    /\ wk[1].pc # "idle" =>
          /\ \A p \in Paths \ {get_daily_log_path(wk[1].timestamp)} :
                files[p] = wk[1].before[p]
          /\ wk[1].pc \in {"open", "dump"} =>
                wk[1].entries =
                    Append(load_daily_log(wk[1].before, wk[1].timestamp),
                           MakeEntry(wk[1].food_items, wk[1].timestamp))

(* C31 happens: an append to the 16th has written its file while the file  *)
(* of the 15th, which holds an entry, is as it was.                        *)
C31_Witness ==
    /\ wk[1].pc = "done" /\ wk[1].result
    /\ wk[1].timestamp.date = "2024-01-16"
    /\ files[PathOfDay("2024-01-16")] # wk[1].before[PathOfDay("2024-01-16")]
    /\ files[PathOfDay("2024-01-15")] = TextOf(ToJson(PyList(<<OldEntry("2024-01-15")>>)))

(* C32, as the specification states it: an accepted append to a day whose  *)
(* file is corrupted succeeds and leaves a journal of exactly the new      *)
(* entry.                                                                  *)
C32_CorruptedDayStartsAfresh ==
    LET t == wk[1].timestamp
        path == get_daily_log_path(t)
    IN  ( /\ wk[1].pc = "done" /\ ~Rejected(wk[1].food_items)
          /\ Corrupted(wk[1].before[path]) )
            => /\ wk[1].result
               /\ files[path] =
                     TextOf(ToJson(PyList(<<MakeEntry(wk[1].food_items, t)>>)))

(* The sequence p is the beginning of the sequence q. *)
StartsWith(q, p) == Len(p) <= Len(q) /\ SubSeq(q, 1, Len(p)) = p

C18_WritesSequenceShape ==
    (wk[1].pc = "done" /\ wk[1].result) =>
        LET t == wk[1].timestamp
            c == files[get_daily_log_path(t)]
        IN  /\ c.k = "text" /\ c.clean /\ c.doc.k = "array"
            /\ (wk[1].before[get_daily_log_path(t)] = TextOf(ToJson(OldEntry(t.date))))
                  => FromJson(c.doc).v = <<OldEntry(t.date), MakeEntry(wk[1].food_items, t)>>

(* C18 happens: a successful append to the day stored as a legacy object. *)
C18_Witness ==
    /\ wk[1].pc = "done" /\ wk[1].result
    /\ wk[1].before[get_daily_log_path(wk[1].timestamp)].doc.k = "object"
    /\ files[get_daily_log_path(wk[1].timestamp)].doc.k = "array"
    /\ Len(files[get_daily_log_path(wk[1].timestamp)].doc.v) = 2

----------------------------------------------------------------------------
(* Properties of the service clients (SpecClient).                          *)

(* The transport fails: an exception, or a status other than 200. *)
TransportFails(reply) == reply.fault # "" \/ reply.status # 200

EggPayload ==
    PyDict([items |-> PyList(<<PyDict([food |-> PyStr("egg"), quantity |-> PyStr("2")])>>)])

(* The replies that carry a payload, and the payload each carries: the      *)
(* trimmed transcript, the JSON object of the model's reply.                *)
Delivered(kind, reply) ==
    IF TransportFails(reply) THEN NoPayload
    ELSE IF kind = "transcriber"
    THEN (IF reply.body = <<WS>> THEN PyText(<<>>) ELSE PyText(<<reply.body[1]>>))
    ELSE IF reply.body \in {GoodReply, <<FO>> \o GoodReply \o <<FC, WS>>} THEN EggPayload
    ELSE NoPayload

AttemptFails(kind, reply) == Delivered(kind, reply) = NoPayload

C5_AllAttemptsFail ==
    /\ call.requests <= 3
    /\ call.pc = "sleep" => call.requests < 3
    /\ Len(call.waits) <= 2
    /\ ( /\ call.pc = "done"
         /\ ~Refused(call.kind, call.input)
         /\ \A i \in 1..Len(call.log) : AttemptFails(call.kind, call.log[i]) )
       => /\ call.requests = 3
          /\ Len(call.waits) = 2
          /\ call.result = PyNone

(* C5 happens: three failed attempts of different kinds. *)
C5_Witness ==
    /\ call.pc = "done" /\ call.requests = 3
    /\ call.kind = "extractor"
    /\ call.log = << Response(500, <<W("Server error")>>), BadBody, Raised("Timeout") >>
    /\ call.result = PyNone
    /\ Len(call.waits) = 2

(* C6, as the specification states it: in every call, on a new object or on *)
(* one that made calls before, the first wait is 1 and the second is 2.     *)
C6_BackoffStartsAtOne ==
    /\ Len(call.waits) >= 1 => call.waits[1] = 1
    /\ Len(call.waits) >= 2 => call.waits[2] = 2

(* C14: no call ends with an exception reaching the caller; however its     *)
(* attempts failed (a status other than 200, a connection error, a timeout, *)
(* a response body without the expected fields), a call that is over has    *)
(* returned None or the payload of its last reply.                          *)
C14_NoExceptionPropagates ==
    /\ call.pc # "raised"
    /\ call.pc = "done" =>
          \/ call.result = PyNone
          \/ /\ call.log # <<>>
             /\ ~AttemptFails(call.kind, call.log[Len(call.log)])
             /\ call.result = Delivered(call.kind, call.log[Len(call.log)])

(* C14 happens: a malformed body, then a timeout, then a payload. *)
C14_Witness ==
    /\ call.pc = "done" /\ call.kind = "extractor"
    /\ call.log = <<BadBody, Raised("Timeout"), Response(200, GoodReply)>>
    /\ call.result = EggPayload

(* C24, as the specification states it: a reply of the extraction service   *)
(* with status 200 ends the call on that attempt, whatever its text: no     *)
(* wait and no request follows it.                                          *)
C24_SuccessStatusEndsCall ==
    call.kind = "extractor" =>
        \A i \in 1..Len(call.log) :
            (call.log[i].fault = "" /\ call.log[i].status = 200) =>
                (i = Len(call.log) /\ call.pc = "done")

(* The input precondition of a call fails: the audio file does not exist,   *)
(* or the description is empty or made of spaces.                           *)
PreconditionFails(kind, input) ==
    IF kind = "transcriber"
    THEN input.v \notin ExistingAudio
    ELSE \A i \in 1..Len(input.v) : input.v[i].s = "space"

(* C34: the step that begins a call whose input precondition fails ends it: *)
(* the call has returned None, has made no request and no wait, and the     *)
(* retry_delay of the object is what it was.                                *)
C34_RefusedCallDoesNothing ==
    [][\A kind \in Kinds :
          ( /\ cl'[kind].calls = cl[kind].calls + 1
            /\ call'.kind = kind
            /\ PreconditionFails(kind, call'.input) )
          => /\ call'.pc = "done" /\ call'.result = PyNone
             /\ call'.requests = 0 /\ call'.waits = <<>> /\ call'.log = <<>>
             /\ cl'[kind].retry_delay = cl[kind].retry_delay]_vars

(* C34 happens: an extractor whose first call left its delay at 4 has       *)
(* refused a description of spaces.                                         *)
C34_Witness ==
    /\ call.pc = "done" /\ call.kind = "extractor"
    /\ call.input = PyText(<<WS>>)
    /\ call.requests = 0 /\ call.waits = <<>> /\ call.result = PyNone
    /\ cl["extractor"].calls = 2 /\ cl["extractor"].retry_delay = 4

----------------------------------------------------------------------------
(* Properties of the upload handler (SpecPipe).                             *)

StageOrder == <<"transcription", "extraction", "storage">>

StageError(stage) ==
    CASE stage = "transcription" -> "Failed to transcribe audio"
      [] stage = "extraction"    -> "Failed to parse food description"
      [] stage = "storage"       -> "Failed to store food data"

(* C7, as the specification states it: the stages are invoked in the order  *)
(* transcription, extraction, storage, each after the one before it         *)
(* succeeded; after a failed stage no later one is invoked, and the         *)
(* failure reported names the stage that failed.                            *)
C7_StagesInOrderFailureNamed ==
    /\ Len(run.stages) <= 3
    /\ run.stages = SubSeq(StageOrder, 1, Len(run.stages))
    /\ (run.pc = "done" /\ run.failed # "") =>
          /\ run.stages # <<>>
          /\ run.stages[Len(run.stages)] = run.failed
          /\ run.response.status = 500
          /\ run.response.error = StageError(run.failed)

(* The place of a stage in the handler. *)
Rank(pc) ==
    CASE pc = "idle"         -> 0
      [] pc = "transcribing" -> 1
      [] pc = "extracting"   -> 2
      [] pc = "storing"      -> 3
      [] pc = "done"         -> 4

(* C35: a run that has left idle reaches done, with or without a failure;   *)
(* a run that is done changes no more, and no step takes a run to an        *)
(* earlier stage.                                                           *)
C35_RunTerminates ==
    /\ (run.pc # "idle") ~> (run.pc = "done")
    /\ [][run.pc = "done" => run' = run]_vars
    /\ [][Rank(run'.pc) >= Rank(run.pc)]_vars

(* C35 happens: a run is done after its extractor used all its attempts     *)
(* and its waits.                                                           *)
C35_Witness ==
    /\ run.pc = "done" /\ run.failed = "extraction"
    /\ call.kind = "extractor" /\ call.requests = max_retries
    /\ call.waits = <<1, 2>>
    /\ run.stages = <<"transcription", "extraction">>

(* C37, as the specification implies it: a store_food_entry call that      *)
(* failed while opening or writing the day's file has left the file as it   *)
(* was before the call.                                                     *)
C37_FailedWriteKeepsJournal ==
    LET path == get_daily_log_path(wk[1].timestamp)
    IN  ( /\ wk[1].pc = "done" /\ wk[1].ops # <<>>
          /\ wk[1].ops[Len(wk[1].ops)] \in {"open failed", "write failed"} )
            => files[path] = wk[1].before[path]

(* C38, as the specification states it: the timestamp of a success response *)
(* is the timestamp of the entry the run stored, and that entry is the last *)
(* one of the journal of its timestamp's day.                               *)
C38_ResponseTimestampIsEntryTimestamp ==
    (run.pc = "done" /\ run.response.status = 200) =>
        LET t == wk[1].timestamp
            stored == get_daily_entries(files, t)
        IN  /\ stored # <<>>
            /\ stored[Len(stored)] = MakeEntry(wk[1].food_items, t)
            /\ run.response.timestamp = isoformat(t)

(* The extractor returned a payload. *)
HasPayload == run.pc \in {"storing", "done"} /\ "extraction" \in {run.stages[i] : i \in 1..Len(run.stages)}
                 /\ ~Falsy(run.parsed_data)

(* C8, as the specification states it: a reply that parses to a             *)
(* structurally invalid payload ends the run in Failed at the extraction    *)
(* stage, and the journal store is never invoked.                           *)
C8_InvalidPayloadNeverStored ==
    (HasPayload /\ ~validate_parsed_data(run.parsed_data)) =>
        /\ run.stages = <<"transcription", "extraction">>
        /\ wk[1].pc = "idle" /\ calls = 0
        /\ run.pc = "done" => run.failed = "extraction"

(* C11, as the specification states it: when the handler has returned, the  *)
(* temporary directory and file it made are gone, whichever way it          *)
(* returned.                                                                *)
C11_TempRemovedOnReturn ==
    (run.pc = "done" /\ run.acquired) => ~run.temp

(* An I/O operation of the storage stage failed. *)
IOFailed ==
    \E i \in 1..Len(wk[1].ops) :
        wk[1].ops[i] \in {"makedirs failed", "open failed", "write failed"}

(* C21, as the specification states it: when an I/O operation of the append *)
(* fails, the pipeline's caller gets a failure value, no exception, and the *)
(* run ends Failed at the storage stage.                                    *)
C21_IOFailureIsStorageFailure ==
    (run.pc = "done" /\ IOFailed) =>
        /\ run.exception = ""
        /\ run.failed = "storage"
        /\ run.response = ErrorResponse(500, "Failed to store food data")

(* A reply of the transcription service with status 200 and a text that is *)
(* empty once trimmed.                                                      *)
EmptyTranscript(reply) ==
    reply.fault = "" /\ reply.status = 200 /\ strip(reply.body) = <<>>

(* C22: a transcription that is None or empty ends the run Failed at the    *)
(* transcription stage, with no later stage; the transcriber returns the    *)
(* empty text of a 200 reply at once, with no further request; and the      *)
(* extractor is never called on an empty transcript.                        *)
C22_EmptyTranscriptFailsTranscription ==
    /\ (run.stages # <<>> /\ run.pc # "transcribing" /\ Falsy(run.transcription)) =>
          /\ run.pc = "done"
          /\ run.failed = "transcription"
          /\ run.stages = <<"transcription">>
          /\ run.response = ErrorResponse(500, "Failed to transcribe audio")
    /\ call.kind = "transcriber" =>
          \A i \in 1..Len(call.log) :
              EmptyTranscript(call.log[i]) =>
                  /\ i = Len(call.log)
                  /\ call.pc = "done"
                  /\ call.result = PyText(<<>>)
                  /\ Len(call.waits) = i - 1
    /\ call.kind = "extractor" =>
          call.input.k = "text" /\ strip(call.input.v) # <<>>

(* C22 happens: the first reply is a 200 with blank text; one request, no   *)
(* wait, and the run failed at transcription.                               *)
C22_Witness ==
    /\ run.pc = "done" /\ run.failed = "transcription"
    /\ call.kind = "transcriber"
    /\ call.log = <<Response(200, <<WS>>)>>
    /\ call.requests = 1 /\ call.waits = <<>>
    /\ run.transcription = PyText(<<>>)

(* C23: in a run each stage is invoked at most once and in order, a failed  *)
(* stage is the last one invoked, each service gets one call, the store one *)
(* append, and a call makes at most max_retries requests.                   *)
C23_NoPipelineRetries ==
    /\ Len(run.stages) <= 3
    /\ run.stages = SubSeq(StageOrder, 1, Len(run.stages))
    /\ run.failed # "" => run.stages[Len(run.stages)] = run.failed
    /\ \A kind \in Kinds : cl[kind].calls <= 1
    /\ calls <= 1
    /\ call.requests <= max_retries
    /\ Len(call.log) = call.requests

(* C23 happens: the extractor needed its three attempts, and the run went   *)
(* through the three stages once each.                                      *)
C23_Witness ==
    /\ run.pc = "done" /\ run.stages = StageOrder
    /\ call.kind = "extractor" /\ call.requests = 3
    /\ calls = 1

(* C25, as the specification states it: the response to a request that     *)
(* ended by an exception does not depend on the text of the exception; a    *)
(* failed save of the upload is answered the same whatever the OSError      *)
(* says.                                                                    *)
C25_ResponseIndependentOfExceptionText ==
    (run.pc = "done" /\ run.exception \in SaveErrors) =>
        \A text \in SaveErrors : run.response = ExceptionResponse(text)

(* The entries of a file's document, whichever of the two shapes it has. *)
EntriesOf(c) ==
    IF c.doc.k = "array" THEN c.doc.v
    ELSE IF c.doc.k = "object" THEN <<c.doc>>
    ELSE <<>>

ZeroItems(e) ==
    /\ e.k = "object" /\ "items" \in DOMAIN e.v
    /\ e.v["items"].k = "array" /\ Len(e.v["items"].v) = 0

(* C12: no file of the logs directory holds an entry whose items are the    *)
(* empty list, at any point of a run, whatever the extractor replied.       *)
C12_NoZeroItemEntry ==
    \A p \in Paths : \A i \in 1..Len(EntriesOf(files[p])) :
        ~ZeroItems(EntriesOf(files[p])[i])

(* C12 happens: the extractor's payload had an empty items list, the store  *)
(* was called with it, and the run is over with the files as they were.     *)
C12_Witness ==
    /\ run.pc = "done"
    /\ run.parsed_data = PyDict([items |-> PyList(<<>>)])
    /\ wk[1].pc = "done" /\ wk[1].food_items = PyList(<<>>) /\ ~wk[1].result
    /\ files = files0
    /\ \E p \in Paths : EntriesOf(files[p]) # <<>>

(* A FoodItem: food and quantity, both non-empty strings. *)
FoodItem(item) ==
    /\ item.k = "dict"
    /\ {"food", "quantity"} \subseteq DOMAIN item.v
    /\ item.v["food"].k = "str" /\ item.v["food"].v # ""
    /\ item.v["quantity"].k = "str" /\ item.v["quantity"].v # ""

(* C13, as the specification states it: an append of a list with an element *)
(* that is no FoodItem is rejected and writes nothing.                      *)
C13_OnlyFoodItemsPersisted ==
    ( /\ wk[1].pc = "done" /\ wk[1].food_items.k = "list"
      /\ \E i \in 1..Len(wk[1].food_items.v) : ~FoodItem(wk[1].food_items.v[i]) )
    => (~wk[1].result /\ files = wk[1].before)

(* The three stages were invoked and the last of them succeeded. *)
AllStagesSucceeded ==
    /\ run.stages = StageOrder
    /\ run.failed = ""
    /\ wk[1].pc = "done" /\ wk[1].result

(* C19: when the three stages succeeded the run ends with the success       *)
(* response, and the journal of the day of the time of storing is what it   *)
(* was plus one entry, last, whose items are the extracted items in their   *)
(* order; the other days are untouched.                                     *)
C19_DoneAppendsOneEntry ==
    (run.pc = "done" /\ AllStagesSucceeded) =>
        LET t == wk[1].timestamp
            items == call.result.v["items"]
        IN  /\ run.response.status = 200 /\ run.response.items = items
            /\ \E i \in 1..now : Clock[i] = t
            /\ get_daily_entries(files, t) =
                  Append(get_daily_entries(files0, t),
                         PyDict([timestamp |-> PyStr(isoformat(t)), items |-> items]))
            /\ \A p \in Paths \ {get_daily_log_path(t)} : files[p] = files0[p]

(* C19 happens: two items extracted and stored, in their order, after the   *)
(* entry the day already held.                                              *)
C19_Witness ==
    /\ run.pc = "done" /\ AllStagesSucceeded
    /\ run.response.status = 200
    /\ Len(get_daily_entries(files, wk[1].timestamp)) = 2
    /\ get_daily_entries(files, wk[1].timestamp)[2].v.items =
          PyList(<< PyDict([food |-> PyStr("egg"), quantity |-> PyStr("2")]),
                    PyDict([food |-> PyStr("banana"), quantity |-> PyStr("1")]) >>)

(* The requests answered 400: no audio part, an empty file name, no         *)
(* extension or one outside the allowed set.                                *)
BadUpload(req) ==
    \/ ~req.has
    \/ req.filename = <<>>
    \/ Len(req.filename) < 2
    \/ req.filename[Len(req.filename)] \notin
          {"wav", "WAV", "mp3", "mp4", "m4a", "ogg", "webm"}

(* C20: the answer is 200, with the success body, exactly when the three    *)
(* stages succeeded; it is 500 when a stage failed; and it is 400, with no  *)
(* stage invoked and no temporary storage made, for a request without a     *)
(* usable audio part.                                                       *)
C20_ResponseCodes ==
    run.pc = "done" =>
        /\ run.response.status = 200 <=> AllStagesSucceeded
        /\ run.response.status = 200 =>
               /\ run.response.error = ""
               /\ run.response.transcription = run.transcription
               /\ run.response.items = run.parsed_data.v["items"]
        /\ run.failed # "" => run.response.status = 500
        /\ BadUpload(run.req) =>
               /\ run.response.status = 400
               /\ run.stages = <<>> /\ ~run.acquired
               /\ call = NoCall /\ calls = 0

(* C20 happens: an upload named meal.txt answered 400, nothing invoked. *)
C20_Witness ==
    /\ run.pc = "done"
    /\ run.req = Upload(TRUE, <<"meal", "txt">>)
    /\ run.response.status = 400
    /\ run.stages = <<>>

----------------------------------------------------------------------------
(* Properties of the process answering several uploads (SpecServe).         *)

----------------------------------------------------------------------------
(* Properties of the process and its credential (SpecService).              *)

(* C26: without GROQ_API_KEY no TranscriptionService and no FoodProcessor   *)
(* comes to exist, no request is sent, and the service never serves: no     *)
(* upload is handled.                                                       *)
C26_MissingCredentialFailsConstruction ==
    env.key = "" =>
        /\ \A kind \in Kinds : cl[kind] = NoClient
        /\ call.requests = 0 /\ call.log = <<>>
        /\ env.pc # "serving"
        /\ run = IdleRun

(* C26 happens: without the key the program has exited and a constructor    *)
(* has raised ValueError.                                                   *)
C26_Witness ==
    /\ env.key = "" /\ env.pc = "exited"
    /\ call.pc = "ValueError" /\ call.kind = "extractor"
    /\ cl["extractor"] = NoClient

----------------------------------------------------------------------------
(* Properties of the functions of processing.py (SpecParse).                *)

(* A text without JSON: words and spaces. *)
NoJson(q) == q # <<>> /\ \A i \in 1..Len(q) : q[i].s \in {"prose", "space"}

(* C27: _extract_json returns, for a JSON object in a ```json block, what   *)
(* it returns for the object alone, which is that object; and None for a    *)
(* text without JSON.                                                       *)
C27_FencedSameAsBare ==
    fn.op = "_extract_json" =>
        /\ \A q \in ObjectTexts :
              /\ fn.arg.v = q => fn.out = json_loads(q)
              /\ fn.arg.v = Fenced(q) => fn.out = json_loads(q)
        /\ fn.arg.v \in {GoodReply, Fenced(GoodReply)} => fn.out = EggPayload
        /\ NoJson(fn.arg.v) => fn.out = PyNone

(* C27 happens: the fenced reply gave the payload of the bare one. *)
C27_Witness ==
    /\ fn.op = "_extract_json"
    /\ fn.arg.v = Fenced(GoodReply)
    /\ fn.out = EggPayload

(* C28, as the specification states it: _extract_json returns a JSON object *)
(* or None, whatever the text.                                              *)
C28_ObjectOrAbsence ==
    fn.op = "_extract_json" => fn.out.k \in {"dict", "none"}

(* A structurally valid payload: an object whose items are a list of        *)
(* objects with food and quantity, both non-empty strings.                  *)
StructurallyValid(data) ==
    /\ data.k = "dict"
    /\ "items" \in DOMAIN data.v
    /\ data.v["items"].k = "list"
    /\ \A i \in 1..Len(data.v["items"].v) : FoodItem(data.v["items"].v[i])

(* C29, as the specification states it: validate_parsed_data returns True   *)
(* exactly for the structurally valid payloads.                             *)
C29_ValidateNonEmptyStrings ==
    fn.op = "validate_parsed_data" =>
        (fn.out = PyBool(TRUE) <=> StructurallyValid(fn.arg))

----------------------------------------------------------------------------
(* Properties of the journal store, two appends and a read at once          *)
(* (SpecRace).                                                              *)

(* C9, as the specification states it: a read made while one append to the *)
(* same day is under way returns the journal as it was before the append   *)
(* or as it is after it.                                                   *)
C9_ReaderSeesWholeJournal ==
    rd.mid => rd.result \in {rd.pre, rd.post}

(* The two racing appends are over. *)
RaceOver == race.both /\ wk[1].pc = "done" /\ wk[2].pc = "done"

LastWriter == race.order[2]
FirstWriter == race.order[1]

WrittenSize(w) == JsonSize(ToJson(PyList(wk[w].entries)), 0)

====
